---- MODULE Spec2Model ----
(***************************************************************************)
(* A model of the TechStudy service worker (src/sw.techstudy.js).          *)
(*                                                                         *)
(*   SpecTile     : handleDrivePdf, the tiled range proxy for              *)
(*                  <scope>/drivepdf/<id>, with its PouchDB tile cache.    *)
(*   SpecKey      : cacheKeyFor, the cache-key normalisation.              *)
(*   SpecActivate : the activate handler's sweep of the cache stores.      *)
(*   SpecNav      : the navigation branch of the fetch handler.            *)
(*                                                                         *)
(* Environment assumptions of SpecTile (they are not code of the worker):  *)
(*   - the remote object has a fixed size and fixed bytes; a byte is       *)
(*     identified by its absolute position, so a Blob is the half-open     *)
(*     interval [lo, hi) of positions it holds;                            *)
(*   - a size probe either reports the true size or reports nothing;       *)
(*   - the upstream honours Range: a satisfiable range is answered with    *)
(*     the bytes of its intersection with the object, an unsatisfiable or  *)
(*     backwards one with a non-success status; any fetch may also fail    *)
(*     with a non-success status or a network error;                       *)
(*   - PouchDB put() without _rev on an existing _id rejects with a        *)
(*     conflict, and any put() may reject with a storage error.            *)
(* Numbers are JavaScript doubles in the code; the model stays far below   *)
(* 2^53, where they are exact integers.                                    *)
(***************************************************************************)
EXTENDS Integers, Sequences, FiniteSets, TLC

Min(a, b) == IF a <= b THEN a ELSE b
Max(a, b) == IF a >= b THEN a ELSE b

(***************************************************************************)
(* Constants of the code and bounds of the model.                          *)
(***************************************************************************)
TILE_SIZE == 4194304

\* Cache store names are strings; a name is modelled as the list of its
\* segments between dashes, so that startsWith can be computed.
APP_NS  == "techstudy"
VERSION == "v8"

\* `study-notes-${APP_NS}-${VERSION}`
CACHE_NAME == <<"study", "notes", APP_NS, VERSION>>

\* `study-notes-${APP_NS}-`: the segments before the trailing dash
NamespacePrefix == <<"study", "notes", APP_NS>>

\* size in bytes of the remote object the requests are about
ObjSize == 10000000
\* number of requests that can be in flight at once
NSlots == 2
\* number of requests started in one behaviour
MaxRequests == 2

Slots == 1..NSlots

(***************************************************************************)
(* Blobs.                                                                  *)
(***************************************************************************)
EmptyBlob == [lo |-> 0, hi |-> 0]

MkBlob(lo, hi) == IF hi <= lo THEN EmptyBlob ELSE [lo |-> lo, hi |-> hi]

BlobSize(b) == b.hi - b.lo

\* Blob.slice(start, end): relative offsets, negative ones count from the
\* end, both clamped to the blob, an inverted span is empty.
BlobSlice(b, s, e) ==
    LET size == BlobSize(b)
        rs   == IF s < 0 THEN Max(size + s, 0) ELSE Min(s, size)
        re   == IF e < 0 THEN Max(size + e, 0) ELSE Min(e, size)
        span == Max(re - rs, 0)
    IN  MkBlob(b.lo + rs, b.lo + rs + span)

(***************************************************************************)
(* The Range header, as the tokens the regular expression tells apart:     *)
(* the literal "bytes=", a run of digits, the dash, anything else.         *)
(* An absent header is the empty sequence.                                 *)
(***************************************************************************)
TokBytes == <<"bytes=">>
TokDash  == <<"-">>
TokJunk  == <<"junk">>
Num(n)   == <<"num", n>>

IsNum(h, i) == i <= Len(h) /\ h[i][1] = "num"

\* positions where /bytes=(\d+)-(\d*)/ matches
MatchAt(h, i) ==
    /\ i + 2 <= Len(h)
    /\ h[i] = TokBytes
    /\ IsNum(h, i + 1)
    /\ h[i + 2] = TokDash

Matches(h) == {i \in 1..Len(h) : MatchAt(h, i)}

\* exec() returns the leftmost match, or null
RangeExec(h) ==
    IF Matches(h) = {} THEN [matched |-> FALSE, g1 |-> 0, g2set |-> FALSE, g2 |-> 0]
    ELSE LET i == CHOOSE k \in Matches(h) : \A j \in Matches(h) : k <= j
         IN  [matched |-> TRUE,
              g1      |-> h[i + 1][2],
              g2set   |-> IsNum(h, i + 3),
              g2      |-> IF IsNum(h, i + 3) THEN h[i + 3][2] ELSE 0]

\* a slip: without a match, the first number found anywhere is the start
ParseStartLoose(h) ==
    IF RangeExec(h).matched THEN RangeExec(h).g1
    ELSE IF \E i \in 1..Len(h) : IsNum(h, i)
    THEN h[CHOOSE i \in 1..Len(h) : IsNum(h, i) /\ \A j \in 1..(i - 1) : ~IsNum(h, j)][2]
    ELSE 0

ParseStart(h) == IF RangeExec(h).matched THEN RangeExec(h).g1 ELSE 0

ParseRequestedEnd(h) ==
    IF RangeExec(h).matched /\ RangeExec(h).g2set
    THEN RangeExec(h).g2
    ELSE ParseStart(h) + TILE_SIZE - 1

(***************************************************************************)
(* RangeTiler: the arithmetic of handleDrivePdf.                           *)
(***************************************************************************)
\* a slip: rounding the quotient up instead of down
TileIndexCeil(start) == (start + TILE_SIZE - 1) \div TILE_SIZE

TileIndexOf(start) == start \div TILE_SIZE

TileStartOf(tileIndex) == tileIndex * TILE_SIZE

\* a slip: the tile end never clamped to the object
TileEndUnclamped(tileStart, totalSize) == tileStart + TILE_SIZE - 1

\* a slip: the tile end clamped to totalSize - 1 even when the size is unknown
TileEndAlwaysClamped(tileStart, totalSize) ==
    Min(tileStart + TILE_SIZE - 1, totalSize - 1)

\* totalSize = 0 stands for unknown (0 or NaN in the code, both falsy)
TileEndOf(tileStart, totalSize) ==
    IF totalSize # 0
    THEN Min(tileStart + TILE_SIZE - 1, totalSize - 1)
    ELSE tileStart + TILE_SIZE - 1

\* a slip: the requested end served as asked
ClampEndRequested(tileEnd, requestedEnd) == requestedEnd

ClampEnd(tileEnd, requestedEnd) == Min(tileEnd, requestedEnd)

SliceOffset(start, tileStart) == start - tileStart

\* `bytes ${start}-${end}/${totalSize || '*'}`
ContentRange(start, end, totalSize) ==
    [first |-> start, last |-> end, star |-> (totalSize = 0), total |-> totalSize]

NoContentRange == [first |-> 0, last |-> 0, star |-> FALSE, total |-> 0]

\* a slip in the cache-hit copy of the slicing code: the end taken exclusive
CachedSliceShort(cached, start, tileStart, end) ==
    LET offset == SliceOffset(start, tileStart)
    IN  BlobSlice(cached, offset, offset + (end - start))

\* cache hit: offset = start - tileStart; cached.slice(offset, offset + (end - start + 1))
CachedSlice(cached, start, tileStart, end) ==
    LET offset == SliceOffset(start, tileStart)
    IN  BlobSlice(cached, offset, offset + (end - start + 1))

\* fresh tile: offset = start - tileStart; tileBlob.slice(offset, offset + (end - start + 1))
FreshSlice(tileBlob, start, tileStart, end) ==
    LET offset == SliceOffset(start, tileStart)
    IN  BlobSlice(tileBlob, offset, offset + (end - start + 1))

\* new Response(slice, {status: 206, headers: {Content-Range, Content-Length, ...}})
Respond206(slice, start, end, totalSize, from) ==
    [kind          |-> "built",
     status        |-> 206,
     contentRange  |-> ContentRange(start, end, totalSize),
     contentLength |-> BlobSize(slice),
     body          |-> slice,
     from          |-> from]

\* a response of the upstream handed to the client as it is
PassThrough(ok) ==
    [kind          |-> "upstream",
     status        |-> IF ok THEN 200 ELSE 403,
     contentRange  |-> NoContentRange,
     contentLength |-> 0,
     body          |-> EmptyBlob,
     from          |-> "upstream"]

\* the handler's promise rejected
Rejected ==
    [kind          |-> "rejected",
     status        |-> 0,
     contentRange  |-> NoContentRange,
     contentLength |-> 0,
     body          |-> EmptyBlob,
     from          |-> "none"]

NoResponse ==
    [kind          |-> "none",
     status        |-> 0,
     contentRange  |-> NoContentRange,
     contentLength |-> 0,
     body          |-> EmptyBlob,
     from          |-> "none"]

(***************************************************************************)
(* UpstreamResolver.                                                       *)
(***************************************************************************)
driveCandidates ==
    << [url |-> "googleapis-v3", cors |-> TRUE],
       [url |-> "drive-uc",      cors |-> FALSE],
       [url |-> "lh3",           cors |-> FALSE] >>

\* What one candidate answers to the two probes of getTotalSize: to the HEAD
\* request a Content-Length ("length"), none ("nolength") or a failure
\* ("throws"); to the bytes=0-0 request a Content-Range with the total
\* ("total"), with "*" ("star") or a failure ("throws").
\* What the three candidates answer during one request.
ProbeScenarios ==
    { << <<"length", "total">>,   <<"length", "total">>,   <<"length", "total">> >>,
      << <<"nolength", "total">>, <<"throws", "throws">>,  <<"nolength", "star">> >>,
      << <<"throws", "throws">>,  <<"length", "total">>,   <<"throws", "throws">> >>,
      << <<"nolength", "star">>,  <<"throws", "throws">>,  <<"throws", "total">> >>,
      << <<"nolength", "star">>,  <<"nolength", "nocr">>,  <<"throws", "throws">> >> }

\* getTotalSize(upstreamUrl), given what the candidate answers.
\* parseInt of "*" is NaN, which every later test treats as 0.
getTotalSize(behaviour, size) ==
    IF behaviour[1] = "length" /\ size > 0 THEN size
    ELSE IF behaviour[2] = "total" THEN size
    ELSE 0

\* a slip: the url of a later candidate taken, the read flag left as it was
RECURSIVE TryCandidatesKeepFlag(_, _, _, _)
TryCandidatesKeepFlag(cands, behaviours, size, i) ==
    IF i > Len(cands)
    THEN [upstream |-> 1, allowRead |-> cands[1].cors, totalSize |-> 0]
    ELSE LET sz == getTotalSize(behaviours[i], size)
         IN  IF sz # 0
             THEN [upstream |-> i, allowRead |-> cands[1].cors, totalSize |-> sz]
             ELSE TryCandidatesKeepFlag(cands, behaviours, size, i + 1)

\* the loop over cands[1..] of handleDrivePdf
RECURSIVE TryCandidates(_, _, _, _)
TryCandidates(cands, behaviours, size, i) ==
    IF i > Len(cands)
    THEN [upstream |-> 1, allowRead |-> cands[1].cors, totalSize |-> 0]
    ELSE LET sz == getTotalSize(behaviours[i], size)
         IN  IF sz # 0
             THEN [upstream |-> i, allowRead |-> cands[i].cors, totalSize |-> sz]
             ELSE TryCandidates(cands, behaviours, size, i + 1)

ResolveUpstream(cands, behaviours, size) ==
    LET first == getTotalSize(behaviours[1], size)
    IN  IF first # 0
        THEN [upstream |-> 1, allowRead |-> cands[1].cors, totalSize |-> first]
        ELSE TryCandidates(cands, behaviours, size, 2)

(***************************************************************************)
(* TileFetcher: fetchTile(upstreamUrl, start, end, allowReadBytes).        *)
(* `answer` is what the network does with the request: "ok" (a success     *)
(* status with the bytes), "notok" (a non-success status) or "neterr"      *)
(* (fetch rejects). A range the object cannot satisfy is never "ok".       *)
(***************************************************************************)
Satisfiable(lo, hi, size) == lo <= hi /\ lo < size

UpstreamBytes(lo, hi, size) == MkBlob(lo, Min(hi, size - 1) + 1)

FetchAnswers(lo, hi, size) ==
    IF Satisfiable(lo, hi, size) THEN {"ok", "notok", "neterr"} ELSE {"notok", "neterr"}

\* a slip: the bytes read whenever the status is a success
fetchTileAlwaysRead(answer, lo, hi, allowReadBytes, size) ==
    IF answer = "ok"
    THEN [isBlob |-> TRUE,  ok |-> TRUE, blob |-> UpstreamBytes(lo, hi, size)]
    ELSE [isBlob |-> FALSE, ok |-> FALSE, blob |-> EmptyBlob]

\* a slip: the bytes read without looking at the status
fetchTileIgnoreStatus(answer, lo, hi, allowReadBytes, size) ==
    IF allowReadBytes
    THEN [isBlob |-> TRUE,  ok |-> (answer = "ok"), blob |-> UpstreamBytes(lo, hi, size)]
    ELSE [isBlob |-> FALSE, ok |-> (answer = "ok"), blob |-> EmptyBlob]

\* the value fetchTile resolves with: a Blob, or the Response itself
fetchTile(answer, lo, hi, allowReadBytes, size) ==
    IF allowReadBytes /\ answer = "ok"
    THEN [isBlob |-> TRUE,  ok |-> TRUE, blob |-> UpstreamBytes(lo, hi, size)]
    ELSE [isBlob |-> FALSE, ok |-> (answer = "ok"), blob |-> EmptyBlob]

(***************************************************************************)
(* TileStore: the PouchDB database of tiles.                               *)
(***************************************************************************)
\* `pdf:${fileId}:chunk:${String(tileIndex).padStart(6, '0')}`
\* padStart never truncates, so the id is the pair it is built from.
DocId(fileId, tileIndex) == <<"pdf", fileId, "chunk", tileIndex>>

HasDoc(db, id) == \E d \in db : d.id = id

GetDoc(db, id) == CHOOSE d \in db : d.id = id

PutAnswers(db, id) == IF HasDoc(db, id) THEN {"conflict"} ELSE {"stored", "failed"}

\* a slip: no try/catch around the put
PutThrows(answer, rsp) == IF answer \in {"conflict", "failed"} THEN Rejected ELSE rsp

\* try { await TileDB.put(...) } catch {}: the handler goes on to the
\* response whatever the put did
PutCaught(answer, rsp) == rsp

\* a slip: a second document kept beside the one of the same id
TileDBPutDuplicate(db, doc, answer) ==
    IF answer \in {"stored", "conflict"} THEN db \cup {doc} ELSE db

\* a slip: last writer wins
TileDBPutOverwrite(db, doc, answer) ==
    IF answer \in {"stored", "conflict"}
    THEN {d \in db : d.id # doc.id} \cup {doc}
    ELSE db

\* TileDB.put(doc) with no _rev: stored only when the id is new
TileDBPut(db, doc, answer) == IF answer = "stored" THEN db \cup {doc} ELSE db

(***************************************************************************)
(* The requests of the model.                                              *)
(***************************************************************************)
FileId == "fileA"

RangeHeaders ==
    { <<>>,
      <<TokBytes, Num(0), TokDash>>,
      <<TokBytes, Num(TILE_SIZE), TokDash>>,
      <<TokBytes, Num(2 * TILE_SIZE), TokDash>>,
      <<TokBytes, Num(TILE_SIZE - 10), TokDash, Num(TILE_SIZE + 9)>>,
      <<TokJunk, TokBytes, Num(100), TokDash, Num(199)>>,
      <<TokBytes, Num(ObjSize), TokDash>>,
      <<TokBytes, Num(TILE_SIZE + 96), TokDash, Num(100)>>,
      <<TokBytes, TokDash, Num(500)>> }

(***************************************************************************)
(* KeyNormalizer: cacheKeyFor(request).                                    *)
(* A URL is its origin, its path and its query, the query being the list   *)
(* of name-value pairs URLSearchParams holds; a request is a URL, a        *)
(* method and the Accept header.                                           *)
(***************************************************************************)
SelfOrigin  == "https://techstudy.example"
OtherOrigin == "https://couch.example"

\* a slip: only the first `v` pair removed
RECURSIVE DeleteFirst(_, _)
DeleteFirst(query, name) ==
    IF query = <<>> THEN <<>>
    ELSE IF Head(query)[1] = name THEN Tail(query)
    ELSE <<Head(query)>> \o DeleteFirst(Tail(query), name)

\* URLSearchParams.delete(name): every pair of that name removed, the
\* others kept in order
SearchParamsDelete(query, name) == SelectSeq(query, LAMBDA p : p[1] # name)

NullKey ==
    [isNull |-> TRUE, path |-> "", query |-> <<>>, method |-> "", accept |-> "",
     mode |-> "", credentials |-> ""]

\* new Request(url.pathname + url.search, {method: 'GET', headers, mode, credentials})
\* The relative URL resolves against the worker's own origin.
cacheKeyFor(request) ==
    IF request.url.origin # SelfOrigin THEN NullKey
    ELSE [isNull      |-> FALSE,
          path        |-> request.url.path,
          query       |-> SearchParamsDelete(request.url.query, "v"),
          method      |-> "GET",
          accept      |-> request.accept,
          mode        |-> "same-origin",
          credentials |-> "same-origin"]

VARIABLES
    tileDB,     \* TRUE when importScripts and new PouchDB succeeded (TileDB non-null)
    store,      \* the documents of the tile database
    req,        \* per slot: the locals and the position of one handleDrivePdf call
    started,    \* number of requests started so far
    history     \* the 206 responses built from freshly fetched tiles so far

tileVars == <<tileDB, store, req, started, history>>

VARIABLES
    kbase,      \* a request without any `v` parameter
    kreq        \* the same request after `v` parameters were added, changed, removed

keyVars == <<kbase, kreq>>

VARIABLES
    caches,     \* the CacheStorage: the stores in creation order, each a name and its entries
    actPc,      \* position of the activate handler
    actKeys,    \* the names caches.keys() returned to it
    deleted,    \* the names it has deleted
    preloadOn,  \* navigation preload enabled
    claimed     \* clients.claim() done

actVars == <<actPc, actKeys, deleted, preloadOn, claimed>>

VARIABLES
    nav,        \* per slot: one run of the navigation branch of the fetch handler
    navStarted  \* number of navigation requests started so far

navVars == <<nav, navStarted>>

VARIABLES
    asset,        \* per slot: one run of the asset branch of the fetch handler
    assetStarted  \* number of asset requests started so far

assetVars == <<asset, assetStarted>>

VARIABLES
    disp        \* the fetch event the listener received last and what it did with it

dispVars == <<disp>>

VARIABLES
    inst        \* the install handler: its position, what the fetches of addAll gave, its result

instVars == <<inst>>

VARIABLES
    cancel      \* one client request, the fetches made for it, and the client's abort

cancelVars == <<cancel>>

vars == <<tileVars, keyVars, caches, actVars, navVars, assetVars, dispVars, instVars,
          cancelVars>>

IdleReq ==
    [pc |-> "idle", hdr |-> <<>>, upstream |-> 1, allowRead |-> TRUE, totalSize |-> 0,
     start |-> 0, requestedEnd |-> 0, tileIndex |-> 0, tileStart |-> 0, tileEnd |-> 0,
     end |-> 0, got |-> EmptyBlob, hit |-> FALSE, fetched |-> "none", put |-> "none",
     probes |-> 0, resp |-> NoResponse, answers |-> <<>>, looked |-> FALSE]

\* the request of SpecKey while another specification runs
NoRequest ==
    [url |-> [origin |-> SelfOrigin, path |-> "/", query |-> <<>>],
     method |-> "GET", accept |-> "*/*"]

KeyIdle == kbase = NoRequest /\ kreq = NoRequest

ActIdle ==
    /\ actPc = "idle"
    /\ actKeys = {}
    /\ deleted = {}
    /\ preloadOn = FALSE
    /\ claimed = FALSE

NavIdle == nav = <<>> /\ navStarted = 0

AssetIdle == asset = <<>> /\ assetStarted = 0

NoEvent == [pc |-> "idle"]

DispIdle == disp = NoEvent

NotInstalling == [pc |-> "idle"]

InstIdle == inst = NotInstalling

NoClient == [pc |-> "idle"]

CancelIdle == cancel = NoClient

TileIdle ==
    /\ tileDB = FALSE
    /\ store = {}
    /\ req = [r \in Slots |-> IdleReq]
    /\ started = 0
    /\ history = {}

InitTile ==
    /\ tileDB \in BOOLEAN
    /\ store = {}
    /\ req = [r \in Slots |-> IdleReq]
    /\ started = 0
    /\ history = {}
    /\ KeyIdle
    /\ caches = <<>>
    /\ ActIdle
    /\ NavIdle
    /\ AssetIdle
    /\ DispIdle
    /\ InstIdle
    /\ CancelIdle

\* number of getTotalSize calls of one request (each issues one or two fetches)
ProbesIssued(res) == IF res.totalSize # 0 THEN res.upstream ELSE Len(driveCandidates)

Free(r) == req[r].pc \in {"idle", "done"}

\* a new request takes the lowest slot that holds no request in flight
Takes(r) == Free(r) /\ \A o \in Slots : o < r => ~Free(o)

\* fetch event for <scope>/drivepdf/<id> without a Range header:
\* the first candidate is fetched and its response passed through
ReceivePlain(r) ==
    /\ Takes(r)
    /\ started < MaxRequests
    /\ started' = started + 1
    /\ \E answer \in {"ok", "notok", "neterr"} :
         req' = [req EXCEPT ![r] =
                   [IdleReq EXCEPT !.pc = "done", !.fetched = answer,
                                   !.resp = IF answer = "neterr" THEN Rejected
                                            ELSE PassThrough(answer = "ok")]]
    /\ UNCHANGED <<tileDB, store, history>>

\* fetch event for <scope>/drivepdf/<id> with a Range header: the size
\* probes, the parse of the range and the tile window (no shared state is
\* read or written before the tile lookup)
ReceiveRange(r) ==
    /\ Takes(r)
    /\ started < MaxRequests
    /\ started' = started + 1
    /\ \E h \in RangeHeaders \ {<<>>} :
       \E answers \in ProbeScenarios :
         LET res   == ResolveUpstream(driveCandidates, answers, ObjSize)
             start == ParseStart(h)
             rEnd  == ParseRequestedEnd(h)
             tIdx  == TileIndexOf(start)
             tSt   == TileStartOf(tIdx)
             tEnd  == TileEndOf(tSt, res.totalSize)
         IN  req' = [req EXCEPT ![r] =
                       [IdleReq EXCEPT !.pc = "lookup",
                                       !.hdr = h,
                                       !.upstream = res.upstream,
                                       !.allowRead = res.allowRead,
                                       !.totalSize = res.totalSize,
                                       !.start = start,
                                       !.requestedEnd = rEnd,
                                       !.tileIndex = tIdx,
                                       !.tileStart = tSt,
                                       !.tileEnd = tEnd,
                                       !.end = ClampEnd(tEnd, rEnd),
                                       !.probes = ProbesIssued(res),
                                       !.answers = answers]]
    /\ UNCHANGED <<tileDB, store, history>>

\* TileDB.getAttachment(docId, 'bin'): a hit answers from the stored blob
Lookup(r) ==
    /\ req[r].pc = "lookup"
    /\ LET q  == req[r]
           id == DocId(FileId, q.tileIndex)
       IN  IF tileDB /\ q.allowRead /\ HasDoc(store, id)
           THEN req' = [req EXCEPT ![r] =
                          [@ EXCEPT !.pc = "done", !.hit = TRUE, !.looked = TRUE,
                                    !.got = GetDoc(store, id).blob,
                                    !.resp = Respond206(
                                                CachedSlice(GetDoc(store, id).blob, q.start,
                                                            q.tileStart, q.end),
                                                q.start, q.end, q.totalSize, "cache")]]
           ELSE req' = [req EXCEPT ![r] =
                          [@ EXCEPT !.pc = "fetch", !.looked = tileDB /\ q.allowRead]]
    /\ UNCHANGED <<tileDB, store, started, history>>

\* await fetchTile(upstream, tileStart, tileEnd, allowRead)
FetchTile(r) ==
    /\ req[r].pc = "fetch"
    /\ LET q == req[r]
       IN  \E answer \in FetchAnswers(q.tileStart, q.tileEnd, ObjSize) :
             LET got == fetchTile(answer, q.tileStart, q.tileEnd, q.allowRead, ObjSize)
             IN  req' = [req EXCEPT ![r] =
                   IF answer = "neterr"
                   THEN [@ EXCEPT !.pc = "done", !.fetched = answer, !.resp = Rejected]
                   ELSE IF ~got.isBlob
                   THEN [@ EXCEPT !.pc = "done", !.fetched = answer,
                                  !.resp = PassThrough(got.ok)]
                   ELSE [@ EXCEPT !.pc = "put", !.fetched = answer, !.got = got.blob]]
    /\ UNCHANGED <<tileDB, store, started, history>>

\* TileDB.put (errors swallowed), then the slice and the 206 response
Persist(r) ==
    /\ req[r].pc = "put"
    /\ LET q   == req[r]
           id  == DocId(FileId, q.tileIndex)
           doc == [id |-> id, fileId |-> FileId, tileIndex |-> q.tileIndex,
                   tileStart |-> q.tileStart, tileEnd |-> q.tileEnd,
                   chunkSize |-> TILE_SIZE, blob |-> q.got]
           rsp == Respond206(FreshSlice(q.got, q.start, q.tileStart, q.end),
                             q.start, q.end, q.totalSize, "fresh")
       IN  \E answer \in (IF tileDB /\ q.allowRead THEN PutAnswers(store, id) ELSE {"skipped"}) :
             /\ store' = TileDBPut(store, doc, answer)
             /\ req' = [req EXCEPT ![r] = [@ EXCEPT !.pc = "done", !.put = answer,
                                                   !.resp = PutCaught(answer, rsp)]]
             /\ history' = history \cup {[hdr |-> q.hdr, body |-> rsp.body,
                                          totalSize |-> q.totalSize,
                                          persisted |-> (answer = "stored")]}
    /\ UNCHANGED <<tileDB, started>>

NextTile ==
    /\ \E r \in Slots :
          \/ ReceivePlain(r)
          \/ ReceiveRange(r)
          \/ Lookup(r)
          \/ FetchTile(r)
          \/ Persist(r)
    /\ UNCHANGED <<keyVars, caches, actVars, navVars, assetVars, dispVars, instVars, cancelVars>>

SpecTile == InitTile /\ [][NextTile]_vars

(***************************************************************************)
(* SpecKey: one request and the variants of it that differ only in `v`.    *)
(***************************************************************************)
\* most `v` parameters one URL of the model carries
MaxV == 2

VValues == {"1", "2"}

BaseQueries ==
    { <<>>,
      << <<"a", "1">> >>,
      << <<"a", "1">>, <<"vv", "2">> >>,
      << <<"V", "1">>, <<"a", "2">> >> }

BaseRequests ==
    [url    : [origin : {SelfOrigin, OtherOrigin},
               path   : {"/app/", "/app/lib/app.js"},
               query  : BaseQueries],
     method : {"GET", "POST"},
     accept : {"text/html", "*/*"}]

CountV(query) == Cardinality({i \in 1..Len(query) : query[i][1] = "v"})

InsertAt(query, i, pair) == SubSeq(query, 1, i) \o <<pair>> \o SubSeq(query, i + 1, Len(query))

RemoveAt(query, i) == SubSeq(query, 1, i - 1) \o SubSeq(query, i + 1, Len(query))

InitKey ==
    /\ kbase \in BaseRequests
    /\ kreq = kbase
    /\ TileIdle
    /\ caches = <<>>
    /\ ActIdle
    /\ NavIdle
    /\ AssetIdle
    /\ DispIdle
    /\ InstIdle
    /\ CancelIdle

\* the page adds a cache buster ?v=... somewhere in the query
KeyAddV ==
    /\ CountV(kreq.url.query) < MaxV
    /\ \E i \in 0..Len(kreq.url.query), val \in VValues :
         kreq' = [kreq EXCEPT !.url.query = InsertAt(@, i, <<"v", val>>)]
    /\ UNCHANGED kbase

\* the page changes the value of a cache buster
KeySetV ==
    /\ \E i \in 1..Len(kreq.url.query), val \in VValues :
         /\ kreq.url.query[i][1] = "v"
         /\ kreq.url.query[i][2] # val
         /\ kreq' = [kreq EXCEPT !.url.query[i] = <<"v", val>>]
    /\ UNCHANGED kbase

\* the page drops a cache buster
KeyDropV ==
    /\ \E i \in 1..Len(kreq.url.query) :
         /\ kreq.url.query[i][1] = "v"
         /\ kreq' = [kreq EXCEPT !.url.query = RemoveAt(@, i)]
    /\ UNCHANGED kbase

NextKey ==
    /\ \/ KeyAddV
       \/ KeySetV
       \/ KeyDropV
    /\ UNCHANGED <<tileVars, caches, actVars, navVars, assetVars, dispVars, instVars, cancelVars>>

SpecKey == InitKey /\ [][NextKey]_vars

(***************************************************************************)
(* SpecActivate: the activate handler. Any set of stores may exist when it *)
(* starts; the deletions of Promise.all settle in any order.               *)
(***************************************************************************)
\* k.startsWith(prefix + "-"): the name goes on after the dash that follows
\* the prefix's segments
StartsWithDash(k, prefix) ==
    /\ Len(k) > Len(prefix)
    /\ SubSeq(k, 1, Len(prefix)) = prefix

\* a slip: the current store not exempted
StaleKeyAnyVersion(k) == StartsWithDash(k, NamespacePrefix)

\* the filter of the activate handler
StaleKey(k) == k # CACHE_NAME /\ StartsWithDash(k, NamespacePrefix)

\* the store names of the model, in the order the stores were created
StoreNames ==
    << <<"study", "notes", "v3">>,
       <<"study", "notes", APP_NS, "v4">>,
       <<"study", "notes", APP_NS, "v7">>,
       <<"study", "notes", APP_NS>>,
       <<"pdf", "thumbnails">>,
       CACHE_NAME >>

NameSet == {StoreNames[i] : i \in 1..Len(StoreNames)}

EmptyStore(name) == [name |-> name, entries |-> {}]

StoreNamesOf(cs) == {cs[i].name : i \in 1..Len(cs)}

\* caches.delete(name)
CachesDelete(cs, name) == SelectSeq(cs, LAMBDA c : c.name # name)

InitActivate ==
    /\ \E S \in SUBSET NameSet :
         caches = [i \in 1..Cardinality(S) |->
                     EmptyStore(StoreNames[CHOOSE j \in 1..Len(StoreNames) :
                        /\ StoreNames[j] \in S
                        /\ Cardinality({m \in 1..j : StoreNames[m] \in S}) = i])]
    /\ actPc = "keys"
    /\ actKeys = {}
    /\ deleted = {}
    /\ preloadOn = FALSE
    /\ claimed = FALSE
    /\ TileIdle
    /\ KeyIdle
    /\ NavIdle
    /\ AssetIdle
    /\ DispIdle
    /\ InstIdle
    /\ CancelIdle

\* const keys = await caches.keys()
ActKeys ==
    /\ actPc = "keys"
    /\ actKeys' = StoreNamesOf(caches)
    /\ actPc' = "delete"
    /\ UNCHANGED <<caches, deleted, preloadOn, claimed>>

\* one caches.delete(k) of the Promise.all settles
ActDelete ==
    /\ actPc = "delete"
    /\ \E k \in actKeys :
         /\ StaleKey(k)
         /\ k \notin deleted
         /\ caches' = CachesDelete(caches, k)
         /\ deleted' = deleted \cup {k}
    /\ UNCHANGED <<actPc, actKeys, preloadOn, claimed>>

\* Promise.all resolved; navigationPreload.enable() succeeds or throws (swallowed)
ActPreload ==
    /\ actPc = "delete"
    /\ \A k \in actKeys : StaleKey(k) => k \in deleted
    /\ preloadOn' \in BOOLEAN
    /\ actPc' = "claim"
    /\ UNCHANGED <<caches, actKeys, deleted, claimed>>

\* await self.clients.claim(): the handler completes
ActClaim ==
    /\ actPc = "claim"
    /\ claimed' = TRUE
    /\ actPc' = "done"
    /\ UNCHANGED <<caches, actKeys, deleted, preloadOn>>

NextActivate ==
    /\ \/ ActKeys
       \/ ActDelete
       \/ ActPreload
       \/ ActClaim
    /\ UNCHANGED <<tileVars, keyVars, navVars, assetVars, dispVars, instVars, cancelVars>>

SpecActivate == InitActivate /\ [][NextActivate]_vars

(***************************************************************************)
(* SpecNav: the navigation branch of the fetch handler, after the worker   *)
(* was installed and activated. The current store exists (install opens    *)
(* it) and holds the precached CORE_ASSETS or, when cache.addAll failed,   *)
(* nothing. An entry is keyed by the URL of its request (path and query).  *)
(* A response is what the server or a store gave: its status, where it     *)
(* came from and the path it answers.                                      *)
(***************************************************************************)
\* navigation requests handled at once
NavSlots == 2
\* navigation requests started in one behaviour
MaxNav == 3

SCOPE_PATH == "/app/"

\* './', './index.html', ... relative to the worker's script
CORE_ASSETS ==
    << [path |-> "/app/",                         query |-> <<>>],
       [path |-> "/app/index.html",               query |-> <<>>],
       [path |-> "/app/lib/sqljs/sql-wasm.js",    query |-> <<>>],
       [path |-> "/app/lib/sqljs/sql-wasm.wasm",  query |-> <<>>],
       [path |-> "/app/lib/pouchdb.min.js",       query |-> <<>>] >>

\* './index.html'
ShellUrl == [path |-> "/app/index.html", query |-> <<>>]

Undefined == [status |-> 0, origin |-> "undefined", path |-> ""]

Precached(url) == [status |-> 200, origin |-> "install", path |-> url.path]

\* what fetch(req) or the preload resolves with
NetResponse(request, status, origin) ==
    [status |-> status, origin |-> origin, path |-> request.url.path]

ResponseOk(resp) == resp.status >= 200 /\ resp.status <= 299

NavRequests ==
    { [url |-> [origin |-> SelfOrigin, path |-> "/app/notes.html",
                query |-> << <<"v", "1">> >>],
       method |-> "GET", accept |-> "text/html"],
      [url |-> [origin |-> SelfOrigin, path |-> "/app/index.html",
                query |-> << <<"v", "2">> >>],
       method |-> "GET", accept |-> "text/html"] }

\* the URL a key or a request is matched by
UrlOfKey(key) == [path |-> key.path, query |-> key.query]

UrlOfRequest(request) == [path |-> request.url.path, query |-> request.url.query]

HasStore(cs, name) == \E i \in 1..Len(cs) : cs[i].name = name

\* caches.open(name): the store is created when it does not exist
CachesOpen(cs, name) == IF HasStore(cs, name) THEN cs ELSE Append(cs, EmptyStore(name))

HasEntry(entries, url) == \E e \in entries : e.url = url

EntryOf(entries, url) == (CHOOSE e \in entries : e.url = url).resp

\* cache.match(key) on one store
CacheMatch(cs, name, url) ==
    IF \E i \in 1..Len(cs) : cs[i].name = name /\ HasEntry(cs[i].entries, url)
    THEN EntryOf(cs[CHOOSE i \in 1..Len(cs) : cs[i].name = name].entries, url)
    ELSE Undefined

\* caches.match(key): the first store, in creation order, that has a match
CachesMatch(cs, url) ==
    IF \E i \in 1..Len(cs) : HasEntry(cs[i].entries, url)
    THEN EntryOf(cs[CHOOSE i \in 1..Len(cs) :
                      /\ HasEntry(cs[i].entries, url)
                      /\ \A j \in 1..(i - 1) : ~HasEntry(cs[j].entries, url)].entries, url)
    ELSE Undefined

\* a slip: an entry already there is kept (add instead of overwrite)
CachePutIfAbsent(cs, name, url, resp) ==
    [i \in 1..Len(cs) |->
        IF cs[i].name = name /\ ~HasEntry(cs[i].entries, url)
        THEN [cs[i] EXCEPT !.entries = @ \cup {[url |-> url, resp |-> resp]}]
        ELSE cs[i]]

\* cache.put(key, response) on the store `name`
CachePut(cs, name, url, resp) ==
    [i \in 1..Len(cs) |->
        IF cs[i].name = name
        THEN [cs[i] EXCEPT !.entries =
                {e \in @ : e.url # url} \cup {[url |-> url, resp |-> resp]}]
        ELSE cs[i]]

\* if (key) caches.open(CACHE_NAME).then((c) => c.put(key, copy))
ShouldCache(key, resp) == ~key.isNull

\* a slip: the fallback looked up by the request as it came
NavMatchRaw(request) == UrlOfRequest(request)

\* caches.match(cacheKeyFor(req) || req)
NavMatchUrl(request) ==
    IF cacheKeyFor(request).isNull THEN UrlOfRequest(request)
    ELSE UrlOfKey(cacheKeyFor(request))

IdleNav ==
    [pc |-> "idle", request |-> NoRequest, via |-> "none", resp |-> Undefined,
     put |-> "none", copy |-> Undefined, copyThen |-> Undefined, shellThen |-> Undefined]

InitNav ==
    /\ caches \in { <<EmptyStore(CACHE_NAME)>>,
                    <<[name |-> CACHE_NAME,
                       entries |-> {[url |-> CORE_ASSETS[i], resp |-> Precached(CORE_ASSETS[i])] :
                                      i \in 1..Len(CORE_ASSETS)}]>> }
    /\ nav = [s \in 1..NavSlots |-> IdleNav]
    /\ navStarted = 0
    /\ preloadOn \in BOOLEAN
    /\ actPc = "done"
    /\ actKeys = {}
    /\ deleted = {}
    /\ claimed = TRUE
    /\ TileIdle
    /\ KeyIdle
    /\ AssetIdle
    /\ DispIdle
    /\ InstIdle
    /\ CancelIdle

NavFree(s) == nav[s].pc \in {"idle", "done"} /\ nav[s].put # "pending"

\* fetch event of a navigation: respondWith(async () => ...) starts
NavStart(s) ==
    /\ NavFree(s)
    /\ \A o \in 1..NavSlots : o < s => ~NavFree(o)
    /\ navStarted < MaxNav
    /\ navStarted' = navStarted + 1
    /\ \E request \in NavRequests :
         nav' = [nav EXCEPT ![s] = [IdleNav EXCEPT !.pc = "preload", !.request = request]]
    /\ UNCHANGED <<caches, actVars>>

\* the response is returned and, when ShouldCache, its copy is handed to a
\* background put that nothing awaits
NavRespond(s, resp, via) ==
    nav' = [nav EXCEPT ![s] =
              [@ EXCEPT !.pc = "done", !.via = via, !.resp = resp,
                        !.put = IF ShouldCache(cacheKeyFor(nav[s].request), resp)
                                THEN "pending" ELSE "none",
                        !.copy = IF ShouldCache(cacheKeyFor(nav[s].request), resp)
                                 THEN resp ELSE Undefined]]

\* const preload = await event.preloadResponse
NavPreload(s) ==
    /\ nav[s].pc = "preload"
    /\ \/ nav' = [nav EXCEPT ![s] = [@ EXCEPT !.pc = "fetch"]]
       \/ /\ preloadOn
          /\ \E status \in {200, 503} :
               NavRespond(s, NetResponse(nav[s].request, status, "preload"), "preload")
       \/ /\ preloadOn
          /\ nav' = [nav EXCEPT ![s] = [@ EXCEPT !.pc = "match"]]
    /\ UNCHANGED <<caches, actVars, navStarted>>

\* const fresh = await fetch(req)
NavFetch(s) ==
    /\ nav[s].pc = "fetch"
    /\ \/ \E status \in {200, 503} :
            NavRespond(s, NetResponse(nav[s].request, status, "network"), "network")
       \/ nav' = [nav EXCEPT ![s] = [@ EXCEPT !.pc = "match"]]
    /\ UNCHANGED <<caches, actVars, navStarted>>

\* catch: const cached = await caches.match(cacheKeyFor(req) || req)
NavMatch(s) ==
    /\ nav[s].pc = "match"
    /\ LET cached == CachesMatch(caches, NavMatchUrl(nav[s].request))
           copyIn == CacheMatch(caches, CACHE_NAME, UrlOfKey(cacheKeyFor(nav[s].request)))
       IN  nav' = [nav EXCEPT ![s] =
                     IF cached # Undefined
                     THEN [@ EXCEPT !.pc = "done", !.via = "cache", !.resp = cached,
                                    !.copyThen = copyIn]
                     ELSE [@ EXCEPT !.pc = "shell", !.copyThen = copyIn]]
    /\ UNCHANGED <<caches, actVars, navStarted>>

\* return cached || caches.match('./index.html')
NavShell(s) ==
    /\ nav[s].pc = "shell"
    /\ LET shell == CachesMatch(caches, ShellUrl)
       IN  nav' = [nav EXCEPT ![s] =
                     [@ EXCEPT !.pc = "done",
                               !.via = IF shell # Undefined THEN "shell" ELSE "none",
                               !.resp = shell, !.shellThen = shell]]
    /\ UNCHANGED <<caches, actVars, navStarted>>

\* the background caches.open(CACHE_NAME).then((c) => c.put(key, copy))
\* settles: the entry is written, or the write fails and nobody is told
NavPut(s) ==
    /\ nav[s].put = "pending"
    /\ \/ /\ caches' = CachePut(CachesOpen(caches, CACHE_NAME), CACHE_NAME,
                                UrlOfKey(cacheKeyFor(nav[s].request)), nav[s].copy)
          /\ nav' = [nav EXCEPT ![s] = [@ EXCEPT !.put = "stored"]]
       \/ /\ nav' = [nav EXCEPT ![s] = [@ EXCEPT !.put = "failed"]]
          /\ UNCHANGED caches
    /\ UNCHANGED <<actVars, navStarted>>

NextNav ==
    /\ \E s \in 1..NavSlots :
          \/ NavStart(s)
          \/ NavPreload(s)
          \/ NavFetch(s)
          \/ NavMatch(s)
          \/ NavShell(s)
          \/ NavPut(s)
    /\ UNCHANGED <<tileVars, keyVars, assetVars, dispVars, instVars, cancelVars>>

\* a background put, once started, settles: the promise chain runs on
SpecNav ==
    /\ InitNav
    /\ [][NextNav]_vars
    /\ \A s \in 1..NavSlots : WF_<<nav, caches>>(NavPut(s))

(***************************************************************************)
(* SpecAsset: the asset branch of the fetch handler (cache-first with a    *)
(* background refresh), after the worker was installed and activated.      *)
(***************************************************************************)
\* asset requests handled at once
AssetSlots == 2
\* asset requests started in one behaviour
MaxAsset == 3

AssetRequests ==
    { [url |-> [origin |-> SelfOrigin, path |-> "/app/lib/app.js",
                query |-> << <<"v", "1">> >>],
       method |-> "GET", accept |-> "*/*"],
      [url |-> [origin |-> SelfOrigin, path |-> "/app/lib/sqljs/sql-wasm.js",
                query |-> <<>>],
       method |-> "GET", accept |-> "*/*"] }

\* networkPromise before fetch(req) settles
PendingNet == [status |-> 0, origin |-> "pending", path |-> ""]

\* a slip: the network first, the cached entry only when it fails
ReturnNetworkFirst(cached, network) == network

\* return cached || networkPromise
ReturnValue(cached, network) == IF cached # Undefined THEN cached ELSE network

\* .catch(() => cached): what networkPromise resolves with when fetch rejects
NetCatch(cached) == cached

IdleAsset ==
    [pc |-> "idle", request |-> NoRequest, cached |-> Undefined, net |-> "none",
     result |-> PendingNet, put |-> "none", copy |-> Undefined]

InitAsset ==
    /\ caches \in { <<EmptyStore(CACHE_NAME)>>,
                    <<[name |-> CACHE_NAME,
                       entries |-> {[url |-> CORE_ASSETS[i], resp |-> Precached(CORE_ASSETS[i])] :
                                      i \in 1..Len(CORE_ASSETS)}]>> }
    /\ asset = [s \in 1..AssetSlots |-> IdleAsset]
    /\ assetStarted = 0
    /\ preloadOn = TRUE
    /\ actPc = "done"
    /\ actKeys = {}
    /\ deleted = {}
    /\ claimed = TRUE
    /\ TileIdle
    /\ KeyIdle
    /\ NavIdle
    /\ DispIdle
    /\ InstIdle
    /\ CancelIdle

AssetKeyUrl(s) == UrlOfKey(cacheKeyFor(asset[s].request))

AssetFree(s) == asset[s].pc \in {"idle", "done"} /\ asset[s].put # "pending"

\* fetch event of an asset: const key = cacheKeyFor(req); respondWith starts
AssetStart(s) ==
    /\ AssetFree(s)
    /\ \A o \in 1..AssetSlots : o < s => ~AssetFree(o)
    /\ assetStarted < MaxAsset
    /\ assetStarted' = assetStarted + 1
    /\ \E request \in AssetRequests :
         /\ ~cacheKeyFor(request).isNull
         /\ asset' = [asset EXCEPT ![s] = [IdleAsset EXCEPT !.pc = "match", !.request = request]]
    /\ UNCHANGED caches

\* cache = await caches.open(CACHE_NAME); cached = await cache.match(key);
\* fetch(req) is started and `cached || networkPromise` returned
AssetMatch(s) ==
    /\ asset[s].pc = "match"
    /\ LET opened == CachesOpen(caches, CACHE_NAME)
           cached == CacheMatch(opened, CACHE_NAME, AssetKeyUrl(s))
       IN  /\ caches' = opened
           /\ asset' = [asset EXCEPT ![s] =
                          [@ EXCEPT !.pc = "fetch", !.cached = cached,
                                    !.result = ReturnValue(cached, PendingNet)]]
    /\ UNCHANGED assetStarted

\* fetch(req) settles: then(res => { cache.put(key, res.clone()).catch(...); return res })
\* or catch(() => cached); a handler still waiting for networkPromise gets its value
AssetFetch(s) ==
    /\ asset[s].pc = "fetch"
    /\ \/ \E status \in {200, 503} :
            LET res == NetResponse(asset[s].request, status, "network")
            IN  asset' = [asset EXCEPT ![s] =
                            [@ EXCEPT !.pc = "done", !.net = "resolved",
                                      !.put = "pending", !.copy = res,
                                      !.result = IF @ = PendingNet
                                                 THEN ReturnValue(asset[s].cached, res)
                                                 ELSE @]]
       \/ asset' = [asset EXCEPT ![s] =
                      [@ EXCEPT !.pc = "done", !.net = "rejected",
                                !.result = IF @ = PendingNet
                                           THEN ReturnValue(asset[s].cached,
                                                            NetCatch(asset[s].cached))
                                           ELSE @]]
    /\ UNCHANGED <<caches, assetStarted>>

\* cache.put(key, res.clone()).catch(() => {}) settles
AssetPut(s) ==
    /\ asset[s].put = "pending"
    /\ \/ /\ caches' = CachePut(caches, CACHE_NAME, AssetKeyUrl(s), asset[s].copy)
          /\ asset' = [asset EXCEPT ![s] = [@ EXCEPT !.put = "stored"]]
       \/ /\ asset' = [asset EXCEPT ![s] = [@ EXCEPT !.put = "failed"]]
          /\ UNCHANGED caches
    /\ UNCHANGED assetStarted

NextAsset ==
    /\ \E s \in 1..AssetSlots :
          \/ AssetStart(s)
          \/ AssetMatch(s)
          \/ AssetFetch(s)
          \/ AssetPut(s)
    /\ UNCHANGED <<tileVars, keyVars, actVars, navVars, dispVars, instVars, cancelVars>>

SpecAsset == InitAsset /\ [][NextAsset]_vars

\* a cache.put, once started, settles: nothing in the worker can stop it
SpecAssetFair ==
    /\ SpecAsset
    /\ \A s \in 1..AssetSlots : WF_<<asset, caches>>(AssetPut(s))

(***************************************************************************)
(* SpecDispatch: the fetch listener's routing of one event. A URL is its   *)
(* protocol, its origin (scheme and host; for a blob: URL the origin of    *)
(* the URL it wraps) and its path as the list of its segments; the worker  *)
(* runs at the origin `self` with the scope /app/.                         *)
(***************************************************************************)
ScopeSegments == <<"app">>

SelfOrigins ==
    { [scheme |-> "https", host |-> "techstudy.example"],
      [scheme |-> "http",  host |-> "localhost:8080"],
      [scheme |-> "http",  host |-> "intranet.example"] }

UrlOrigins == SelfOrigins \cup {[scheme |-> "https", host |-> "couch.example"]}

ProtocolOf(origin) == IF origin.scheme = "https" THEN "https:" ELSE "http:"

DispPaths ==
    { <<"app", "drivepdf", "fileA">>,
      <<"app", "drivepdf">>,
      <<"app", "notes.html">> }

DispUrls ==
    { u \in [protocol : {"https:", "http:", "blob:"}, origin : UrlOrigins, path : DispPaths] :
        u.protocol = "blob:" \/ u.protocol = ProtocolOf(u.origin) }

DispRequests ==
    [method : {"GET", "POST"}, url : DispUrls, range : BOOLEAN,
     mode : {"navigate", "no-cors"}, destination : {"document", "script"},
     accept : {"text/html", "*/*"}]

\* url.origin.startsWith('http://localhost')
StartsWithHttpLocalhost(origin) ==
    origin.scheme = "http" /\ origin.host \in {"localhost", "localhost:8080"}

\* url.pathname.startsWith(SCOPE_PATH + 'drivepdf/')
IsDrivePdfPath(path) ==
    /\ Len(path) > Len(ScopeSegments) + 1
    /\ SubSeq(path, 1, Len(ScopeSegments) + 1) = ScopeSegments \o <<"drivepdf">>

\* req.mode === 'navigate' || req.destination === 'document' || accept includes text/html
IsNavigation(request) ==
    \/ request.mode = "navigate"
    \/ request.destination = "document"
    \/ request.accept = "text/html"

\* the early returns of the listener
Unhandled(request, self) ==
    \/ request.method # "GET"
    \/ request.url.origin # self
    \/ (request.url.protocol # "https:" /\ ~StartsWithHttpLocalhost(request.url.origin))
    \/ request.url.protocol = "blob:"

\* a slip: the navigation test made before the Range test
RouteNavFirst(request, self) ==
    IF Unhandled(request, self) THEN "unhandled"
    ELSE IF IsDrivePdfPath(request.url.path) THEN "drivepdf"
    ELSE IF IsNavigation(request) THEN "navigation"
    ELSE IF request.range THEN "passthrough"
    ELSE IF request.url.origin # self THEN "unhandled"
    ELSE "asset"

\* the listener from top to bottom: what the event is answered by
Route(request, self) ==
    IF request.method # "GET" THEN "unhandled"
    ELSE IF request.url.origin # self THEN "unhandled"
    ELSE IF request.url.protocol # "https:" /\ ~StartsWithHttpLocalhost(request.url.origin)
    THEN "unhandled"
    ELSE IF request.url.protocol = "blob:" THEN "unhandled"
    ELSE IF IsDrivePdfPath(request.url.path) THEN "drivepdf"
    ELSE IF request.range THEN "passthrough"
    ELSE IF IsNavigation(request) THEN "navigation"
    ELSE IF request.url.origin # self THEN "unhandled"
    ELSE "asset"

InitDispatch ==
    /\ disp = NoEvent
    /\ caches = <<>>
    /\ TileIdle
    /\ KeyIdle
    /\ ActIdle
    /\ NavIdle
    /\ AssetIdle
    /\ InstIdle
    /\ CancelIdle

\* one fetch event
Dispatch ==
    \E self \in SelfOrigins :
    \E request \in DispRequests :
        disp' = [pc |-> "routed", self |-> self, request |-> request,
                 route |-> Route(request, self)]

NextDispatch ==
    /\ Dispatch
    /\ UNCHANGED <<tileVars, keyVars, caches, actVars, navVars, assetVars, instVars, cancelVars>>

SpecDispatch == InitDispatch /\ [][NextDispatch]_vars

(***************************************************************************)
(* SpecInstall: the install listener,                                      *)
(*   caches.open(CACHE_NAME).then(cache => cache.addAll(CORE_ASSETS))      *)
(*         .catch(() => {}).then(() => self.skipWaiting())                 *)
(* cache.addAll fetches every listed asset and rejects, writing nothing,   *)
(* when one fetch rejects or answers with a status that is not ok.         *)
(***************************************************************************)
AssetIndexes == 1..Len(CORE_ASSETS)

FetchOutcomes == {"ok", "notok", "neterr"}

AllFetched(outcomes) == \A i \in AssetIndexes : outcomes[i] = "ok"

RECURSIVE PutAll(_, _, _, _)
PutAll(cs, name, assets, i) ==
    IF i > Len(assets) THEN cs
    ELSE PutAll(CachePut(cs, name, assets[i], Precached(assets[i])), name, assets, i + 1)

\* cache.addAll(assets) on the store `name`: all entries or none
AddAll(cs, name, assets, outcomes) ==
    IF AllFetched(outcomes) THEN PutAll(cs, name, assets, 1) ELSE cs

\* a slip: no catch, the rejection reaches waitUntil
CatchNone(chain) == chain

\* .catch(() => {}): whatever came before, the chain goes on resolved
CatchAll(chain) == "resolved"

Installing ==
    [pc |-> "open", outcomes |-> [i \in AssetIndexes |-> "none"], chain |-> "pending",
     skipWaiting |-> FALSE, settled |-> "pending"]

\* the stores an earlier version of the worker may have left
InitInstall ==
    /\ caches \in { <<>>,
                    << [name |-> <<"study", "notes", APP_NS, "v7">>,
                        entries |-> {[url |-> ShellUrl, resp |-> Precached(ShellUrl)]}] >> }
    /\ inst = NotInstalling
    /\ TileIdle
    /\ KeyIdle
    /\ ActIdle
    /\ NavIdle
    /\ AssetIdle
    /\ DispIdle
    /\ CancelIdle

\* the install event: event.waitUntil(...) starts the chain
InstallEvent ==
    /\ inst.pc = "idle"
    /\ inst' = Installing
    /\ UNCHANGED caches

\* caches.open(CACHE_NAME) resolves, creating the store, or rejects
InstallOpen ==
    /\ inst.pc = "open"
    /\ \/ /\ caches' = CachesOpen(caches, CACHE_NAME)
          /\ inst' = [inst EXCEPT !.pc = "addAll"]
       \/ /\ inst' = [inst EXCEPT !.pc = "catch", !.chain = "rejected"]
          /\ UNCHANGED caches

\* cache.addAll(CORE_ASSETS)
InstallAddAll ==
    /\ inst.pc = "addAll"
    /\ \E outcomes \in [AssetIndexes -> FetchOutcomes] :
         /\ caches' = AddAll(caches, CACHE_NAME, CORE_ASSETS, outcomes)
         /\ inst' = [inst EXCEPT !.pc = "catch", !.outcomes = outcomes,
                                 !.chain = IF AllFetched(outcomes) THEN "resolved"
                                           ELSE "rejected"]

\* .catch(() => {}): a rejection that is not caught settles waitUntil's promise
InstallCatch ==
    /\ inst.pc = "catch"
    /\ inst' = IF CatchAll(inst.chain) = "resolved"
               THEN [inst EXCEPT !.pc = "skip", !.chain = "resolved"]
               ELSE [inst EXCEPT !.pc = "done", !.settled = "rejected"]
    /\ UNCHANGED caches

\* .then(() => self.skipWaiting())
InstallSkipWaiting ==
    /\ inst.pc = "skip"
    /\ inst' = [inst EXCEPT !.pc = "done", !.skipWaiting = TRUE, !.settled = "resolved"]
    /\ UNCHANGED caches

NextInstall ==
    /\ \/ InstallEvent
       \/ InstallOpen
       \/ InstallAddAll
       \/ InstallCatch
       \/ InstallSkipWaiting
    /\ UNCHANGED <<tileVars, keyVars, actVars, navVars, assetVars, dispVars, cancelVars>>

SpecInstall == InitInstall /\ [][NextInstall]_vars

(***************************************************************************)
(* SpecCancel: one client request, the network fetches the worker makes    *)
(* for it one after the other, and the client aborting it. A fetch given   *)
(* the event's Request carries that request's abort signal; a fetch given  *)
(* a URL and an init without `signal` carries none. No handler looks at    *)
(* req.signal.                                                             *)
(***************************************************************************)
NoCall == [call |-> "none", cand |-> 0]

Call(call, cand) == [call |-> call, cand |-> cand]

\* whether the fetch of this call site follows the client's abort signal:
\* fetch(req) in the navigation and asset branches does; fetch(upstreamUrl,
\* {method, headers, redirect}) in getTotalSize, fetchTile and the plain
\* drivepdf pass-through does not
SignalLinked(call) == call \in {"navfetch", "assetfetch"}

ClientKinds == {"drivepdf-range", "drivepdf-plain", "navigation", "asset"}

FirstCall(kind) ==
    IF kind = "drivepdf-range" THEN Call("head", 1)
    ELSE IF kind = "drivepdf-plain" THEN Call("plain", 1)
    ELSE IF kind = "navigation" THEN Call("navfetch", 0)
    ELSE Call("assetfetch", 0)

InitCancel ==
    /\ cancel = NoClient
    /\ caches = <<>>
    /\ TileIdle
    /\ KeyIdle
    /\ ActIdle
    /\ NavIdle
    /\ AssetIdle
    /\ DispIdle
    /\ InstIdle

\* the fetch event: the handler starts and issues its first fetch
ClientRequest ==
    /\ cancel.pc = "idle"
    /\ \E kind \in ClientKinds :
         cancel' = [pc |-> "running", kind |-> kind, aborted |-> FALSE,
                    inflight |-> FirstCall(kind), issued |-> <<FirstCall(kind)>>,
                    abandoned |-> {}, put |-> "none", abortedAt |-> NoCall]

\* the handler's next fetch
Issue(c, call) == [c EXCEPT !.inflight = call, !.issued = Append(@, call)]

Finish(c, put) == [c EXCEPT !.pc = "done", !.inflight = NoCall, !.put = put]

\* the size is known (or every candidate was tried): TileStore answers, or
\* fetchTile is called
AfterSizes(c) == {Finish(c, "none"), Issue(c, Call("tile", c.inflight.cand))}

\* the fetch in flight settles and the handler runs to its next fetch or to its end
FetchSettles ==
    /\ cancel.pc = "running"
    /\ cancel.inflight # NoCall
    /\ LET f == cancel.inflight
       IN  \/ /\ f.call = "head"
              /\ cancel' \in AfterSizes(cancel) \cup {Issue(cancel, Call("probe", f.cand))}
           \/ /\ f.call = "probe"
              /\ cancel' \in (IF f.cand < Len(driveCandidates)
                              THEN AfterSizes(cancel)
                                     \cup {Issue(cancel, Call("head", f.cand + 1))}
                              ELSE AfterSizes([cancel EXCEPT !.inflight.cand = 1]))
           \/ /\ f.call = "tile"
              /\ cancel' \in {Finish(cancel, "none"),
                              Finish(cancel, IF driveCandidates[f.cand].cors
                                             THEN "pending" ELSE "none")}
           \/ /\ f.call = "plain"
              /\ cancel' = Finish(cancel, "none")
           \/ /\ f.call \in {"navfetch", "assetfetch"}
              /\ cancel' \in {Finish(cancel, "pending"), Finish(cancel, "none")}

\* the client aborts the request: a fetch that follows its signal rejects
\* and the handler's catch ends the request; any other fetch goes on
ClientAbort ==
    /\ cancel.pc = "running"
    /\ ~cancel.aborted
    /\ cancel' = IF SignalLinked(cancel.inflight.call)
                 THEN [cancel EXCEPT !.pc = "done", !.aborted = TRUE,
                                     !.abortedAt = cancel.inflight,
                                     !.abandoned = @ \cup {cancel.inflight},
                                     !.inflight = NoCall]
                 ELSE [cancel EXCEPT !.aborted = TRUE, !.abortedAt = cancel.inflight]

\* a cache or TileStore write that was started settles
WriteSettles ==
    /\ cancel.pc = "done"
    /\ cancel.put = "pending"
    /\ \E answer \in {"stored", "failed"} : cancel' = [cancel EXCEPT !.put = answer]

NextCancel ==
    /\ \/ ClientRequest
       \/ FetchSettles
       \/ ClientAbort
       \/ WriteSettles
    /\ UNCHANGED <<tileVars, keyVars, caches, actVars, navVars, assetVars, dispVars, instVars>>

SpecCancel == InitCancel /\ [][NextCancel]_vars

(***************************************************************************)
(* Properties of SpecTile.                                                 *)
(***************************************************************************)
\* a request with a Range header whose range has been parsed
Ranged(r) == req[r].pc # "idle" /\ req[r].hdr # <<>>

\* a request answered with a 206 response built by handleDrivePdf
Built(r) == req[r].pc = "done" /\ req[r].resp.kind = "built"

\* the header matched and its end was left open
OpenEnded(r) == Ranged(r) /\ RangeExec(req[r].hdr).matched /\ ~RangeExec(req[r].hdr).g2set

\* the tile of the request was available: found in TileStore, or read from
\* the upstream by a successful tile fetch
TileObtained(r) == req[r].hit \/ (req[r].allowRead /\ req[r].fetched = "ok")

\* C1: for every parsed start >= 0 the covering tile has
\* tileIndex = floor(start / TILE_SIZE), i.e. tileIndex is the k with
\* k * TILE_SIZE <= start < (k + 1) * TILE_SIZE, tileStart = tileIndex * TILE_SIZE
\* and tileStart <= start < tileStart + TILE_SIZE.
C1_TileCoversStart ==
    \A r \in Slots :
        Ranged(r) =>
            LET q == req[r]
            IN  /\ q.start >= 0
                /\ q.tileIndex >= 0
                /\ q.tileIndex * TILE_SIZE <= q.start
                /\ q.start < (q.tileIndex + 1) * TILE_SIZE
                /\ q.tileStart = q.tileIndex * TILE_SIZE
                /\ q.tileStart <= q.start
                /\ q.start < q.tileStart + TILE_SIZE

\* a 206 response for a start strictly inside the second tile
C1_Witness ==
    \E r \in Slots :
        /\ Built(r)
        /\ req[r].start = TILE_SIZE + 96
        /\ req[r].tileIndex = 1
        /\ req[r].tileStart = TILE_SIZE

\* a valid range request: the header matches, its start lies in the object
\* and its end, when given, is not before its start
ValidRange(r) ==
    /\ Ranged(r)
    /\ RangeExec(req[r].hdr).matched
    /\ req[r].start < ObjSize
    /\ req[r].start <= req[r].requestedEnd

\* C2 (the claim as stated): every 206 response to a valid range request,
\* built from a cached or a freshly fetched tile, with the total size known
\* or unknown, has a body and a Content-Length of exactly end - start + 1
\* bytes, start and end being the bounds of its Content-Range.
C2_SliceExact ==
    \A r \in Slots :
        (Built(r) /\ ValidRange(r)) =>
            LET rsp == req[r].resp
            IN  /\ BlobSize(rsp.body) = rsp.contentRange.last - rsp.contentRange.first + 1
                /\ rsp.contentLength = rsp.contentRange.last - rsp.contentRange.first + 1

\* C3: every 206 response announces a range [start, end] that lies inside the
\* one tile covering start (tileStart <= start, end <= tileEnd, and the tile
\* is at most TILE_SIZE bytes) and does not pass the requested end; the
\* bytes of the body are bytes of that tile.
C3_OneTile ==
    \A r \in Slots :
        Built(r) =>
            LET q   == req[r]
                rsp == q.resp
            IN  /\ rsp.contentRange.first = q.start
                /\ q.tileStart <= rsp.contentRange.first
                /\ rsp.contentRange.last <= q.tileEnd
                /\ rsp.contentRange.last <= q.requestedEnd
                /\ q.tileStart = (q.start \div TILE_SIZE) * TILE_SIZE
                /\ q.tileEnd <= q.tileStart + TILE_SIZE - 1
                /\ (rsp.body # EmptyBlob =>
                        /\ q.tileStart <= rsp.body.lo
                        /\ rsp.body.hi <= q.tileStart + TILE_SIZE)

\* a 206 response to a request whose range runs past the end of its tile
C3_Witness ==
    \E r \in Slots :
        /\ Built(r)
        /\ req[r].requestedEnd > req[r].tileEnd
        /\ RangeExec(req[r].hdr).g2set
        /\ req[r].resp.contentRange.last = req[r].tileEnd
        /\ req[r].resp.body # EmptyBlob

\* the Content-Range the claim C4 announces for `bytes=s-` and a known total
OpenEndedRange(s, total) ==
    [first |-> s,
     last  |-> Min((s \div TILE_SIZE) * TILE_SIZE + TILE_SIZE - 1, total - 1),
     star  |-> FALSE,
     total |-> total]

\* C4 (the claim as stated, on the requests whose tile fetch did not fail):
\* with a known total size, `bytes=s-` is answered with status 206 and
\* Content-Range `bytes s-e/total`, e = min(tileStart(s) + TILE_SIZE - 1, total - 1).
C4_OpenEndedAlways206 ==
    \A r \in Slots :
        (/\ req[r].pc = "done"
         /\ OpenEnded(r)
         /\ req[r].totalSize # 0
         /\ req[r].fetched \notin {"notok", "neterr"}) =>
            /\ req[r].resp.status = 206
            /\ req[r].resp.contentRange = OpenEndedRange(req[r].start, req[r].totalSize)

\* C4 (amended): with a known total size and the tile available (the size
\* came from the read-capable first candidate, and the tile is in TileStore
\* or its fetch succeeded), `bytes=s-` is answered with status 206 and
\* Content-Range `bytes s-e/total`, e = min(tileStart(s) + TILE_SIZE - 1, total - 1);
\* when the size came from a candidate that is not read-capable, no 206 is
\* built and the upstream's response is passed through.
C4_OpenEndedReadable206 ==
    \A r \in Slots :
        (req[r].pc = "done" /\ OpenEnded(r) /\ req[r].totalSize # 0) =>
            /\ TileObtained(r) =>
                  /\ req[r].resp.status = 206
                  /\ req[r].resp.kind = "built"
                  /\ req[r].resp.contentRange
                        = OpenEndedRange(req[r].start, req[r].totalSize)
            /\ ~req[r].allowRead => req[r].resp.kind \in {"upstream", "rejected"}
            /\ req[r].allowRead <=> req[r].upstream = 1

\* the two scenarios of the claim, answered side by side:
\* `bytes=0-` with bytes 0-4194303/10000000 (tile 0) and
\* `bytes=4194304-` with bytes 4194304-8388607/10000000 (tile 1)
C4_Witness ==
    /\ Built(1)
    /\ req[1].hdr = <<TokBytes, Num(0), TokDash>>
    /\ req[1].tileIndex = 0
    /\ req[1].resp.status = 206
    /\ req[1].resp.contentRange
          = [first |-> 0, last |-> 4194303, star |-> FALSE, total |-> 10000000]
    /\ Built(2)
    /\ req[2].hdr = <<TokBytes, Num(4194304), TokDash>>
    /\ req[2].tileIndex = 1
    /\ req[2].resp.status = 206
    /\ req[2].resp.contentRange
          = [first |-> 4194304, last |-> 8388607, star |-> FALSE, total |-> 10000000]

\* C5: when every candidate's size probe yields unknown, the request goes on
\* with the read-capable first candidate and the open-ended tile end
\* tileStart + TILE_SIZE - 1; once its tile is available (TileStore hit or
\* successful tile fetch) it is answered with a 206 whose Content-Range ends
\* at min(tileStart + TILE_SIZE - 1, requestedEnd) and carries `*` as total;
\* the only other outcomes are those of a failed tile fetch.
C5_UnknownSizeServed ==
    \A r \in Slots :
        (Ranged(r) /\ req[r].totalSize = 0) =>
            LET q == req[r]
            IN  /\ q.allowRead
                /\ q.upstream = 1
                /\ q.tileEnd = q.tileStart + TILE_SIZE - 1
                /\ q.pc = "done" =>
                      IF TileObtained(r)
                      THEN /\ q.resp.status = 206
                           /\ q.resp.contentRange.star
                           /\ q.resp.contentRange.first = q.start
                           /\ q.resp.contentRange.last
                                 = Min(q.tileStart + TILE_SIZE - 1, q.requestedEnd)
                      ELSE /\ q.fetched \in {"notok", "neterr"}
                           /\ q.resp.kind = IF q.fetched = "neterr" THEN "rejected"
                                            ELSE "upstream"

\* `bytes=0-` with the size unknown, answered with bytes 0-4194303/*
C5_Witness ==
    \E r \in Slots :
        /\ Built(r)
        /\ req[r].hdr = <<TokBytes, Num(0), TokDash>>
        /\ req[r].totalSize = 0
        /\ req[r].resp.status = 206
        /\ req[r].resp.contentRange.first = 0
        /\ req[r].resp.contentRange.last = 4194303
        /\ req[r].resp.contentRange.star

\* C6: a 206 response served from TileStore (warm) carries the same bytes as
\* every 206 response built from a freshly fetched tile (cold) for the same
\* Range header.
C6_ColdWarmIdentical ==
    \A r \in Slots :
        (Built(r) /\ req[r].resp.from = "cache") =>
            \A c \in history : c.hdr = req[r].hdr => c.body = req[r].resp.body

\* a warm response after a cold one that persisted the tile, same header,
\* non-empty payload, the two requests having seen different total sizes
C6_Witness ==
    \E r \in Slots :
        /\ Built(r)
        /\ req[r].resp.from = "cache"
        /\ req[r].resp.body # EmptyBlob
        /\ req[r].totalSize = 0
        /\ \E c \in history : c.hdr = req[r].hdr /\ c.persisted /\ c.totalSize # 0

(***************************************************************************)
(* Properties of SpecKey.                                                  *)
(***************************************************************************)
\* C7: a request and any request that differs from it only in the presence
\* or the value of `v` parameters normalise to the same key: for the
\* worker's own origin the key has the request's path, the query without the
\* `v` pairs and the method GET; for another origin it is null.
C7_KeyProjection ==
    LET k == cacheKeyFor(kreq)
        b == cacheKeyFor(kbase)
    IN  /\ k = b
        /\ kreq.url.origin = SelfOrigin =>
              /\ ~k.isNull
              /\ k.path = kbase.url.path
              /\ k.query = kbase.url.query
              /\ k.method = "GET"
        /\ kreq.url.origin # SelfOrigin => k.isNull

\* a same-origin request carrying two `v` parameters of different values
\* around another parameter
C7_Witness ==
    /\ kreq.url.origin = SelfOrigin
    /\ kbase.url.query # <<>>
    /\ CountV(kreq.url.query) = 2
    /\ \E i, j \in 1..Len(kreq.url.query) :
          /\ i < j
          /\ kreq.url.query[i] = <<"v", "1">>
          /\ kreq.url.query[j] = <<"v", "2">>
          /\ \E m \in 1..Len(kreq.url.query) : i < m /\ m < j
    /\ ~cacheKeyFor(kreq).isNull

(***************************************************************************)
(* Properties of SpecActivate.                                             *)
(***************************************************************************)
\* C8 (the claim as stated): after the activate handler completes, every
\* store that existed beforehand under a name other than CACHE_NAME has been
\* deleted, and the store named CACHE_NAME has not.
C8_AllOthersDeleted ==
    actPc = "done" =>
        /\ \A k \in actKeys : k # CACHE_NAME => (k \in deleted /\ k \notin StoreNamesOf(caches))
        /\ CACHE_NAME \notin deleted

\* C8 (amended): after the activate handler completes, the stores that
\* existed beforehand and have been deleted are exactly those whose name
\* starts with `study-notes-techstudy-` and differs from CACHE_NAME; every
\* other store, the one named CACHE_NAME included, is still there.
C8_NamespaceSwept ==
    actPc = "done" =>
        /\ \A k \in actKeys :
              IF k # CACHE_NAME /\ StartsWithDash(k, <<"study", "notes", "techstudy">>)
              THEN k \in deleted /\ k \notin StoreNamesOf(caches)
              ELSE k \notin deleted /\ k \in StoreNamesOf(caches)
        /\ deleted \subseteq actKeys
        /\ CACHE_NAME \notin deleted

\* the handler has completed where the current store, two older versions of
\* it and stores of other namespaces existed
C8_Witness ==
    /\ actPc = "done"
    /\ actKeys = NameSet
    /\ deleted = {<<"study", "notes", "techstudy", "v4">>, <<"study", "notes", "techstudy", "v7">>}
    /\ CACHE_NAME \in StoreNamesOf(caches)


(***************************************************************************)
(* Properties of SpecNav.                                                  *)
(***************************************************************************)
NavDone(s) == nav # <<>> /\ nav[s].pc = "done"

FromNetwork(s) == nav[s].via \in {"network", "preload"}

NavKeyUrl(s) == UrlOfKey(cacheKeyFor(nav[s].request))

\* what a finished navigation returned, by the way it finished
NavAnswer(s) ==
    IF FromNetwork(s)
    THEN /\ nav[s].resp.origin = nav[s].via
         /\ nav[s].resp.path = nav[s].request.url.path
         /\ nav[s].put # "none"
         /\ nav[s].copy = nav[s].resp
    ELSE IF nav[s].copyThen # Undefined
    THEN nav[s].via = "cache" /\ nav[s].resp = nav[s].copyThen
    ELSE /\ nav[s].resp = nav[s].shellThen
         /\ nav[s].via = (IF nav[s].shellThen = Undefined THEN "none" ELSE "shell")

\* a put that completes writes the copy under the normalized key
PutWrites ==
    nav # <<>> =>
      \A s \in 1..NavSlots :
        (nav[s].put = "pending" /\ nav'[s].put = "stored")
           => CacheMatch(caches', CACHE_NAME, NavKeyUrl(s)) = nav[s].copy

\* C9 (as the code has it): a navigation whose preload or fetch resolves
\* returns that response and hands a copy to a background put, which settles:
\* the copy is then stored under the normalized key in the current store,
\* unless the write failed. When preload or fetch rejects, the copy stored
\* under the normalized key is returned if there is one; if there is none the
\* result of looking up ./index.html is returned, which is the shell when a
\* store holds it and no response at all otherwise.
C9_NetworkFirstFallback ==
    /\ [](\A s \in 1..NavSlots : NavDone(s) => NavAnswer(s))
    /\ [][PutWrites]_<<nav, caches>>
    /\ \A s \in 1..NavSlots :
         (nav # <<>> /\ nav[s].put = "pending")
            ~> (nav # <<>> /\ nav[s].put \in {"stored", "failed"})

\* an offline navigation to a URL with a version parameter is answered with
\* the copy an earlier online navigation stored
C9_Witness ==
    \E s \in 1..NavSlots :
        /\ NavDone(s)
        /\ nav[s].via = "cache"
        /\ nav[s].request.url.query # <<>>
        /\ nav[s].copyThen.origin \in {"network", "preload"}
        /\ nav[s].resp = nav[s].copyThen

\* C9 (as stated): with no stored copy, the failed navigation is answered
\* with the precached shell document
C9_ShellWhenNoCopy ==
    \A s \in 1..NavSlots :
        (NavDone(s) /\ ~FromNetwork(s) /\ nav[s].copyThen = Undefined)
           => (nav[s].resp # Undefined /\ nav[s].resp.path = ShellUrl.path)

\* C10 (as stated): navigation responses are only cached when they are
\* successful, so every entry of every store has an ok status
C10_OnlyOkCached ==
    \A i \in 1..Len(caches) :
        \A e \in caches[i].entries : ResponseOk(e.resp)


(***************************************************************************)
(* Further properties of SpecTile.                                         *)
(***************************************************************************)
\* C14: a ranged request whose chosen candidate is not read-capable never
\* asks TileStore for the tile, never puts a document and never builds a
\* response of its own: it ends with the upstream's response handed on as
\* it is, or rejected when the tile fetch itself rejects.
C14_OpaquePassThrough ==
    \A r \in Slots :
        (Ranged(r) /\ ~req[r].allowRead) =>
            /\ ~req[r].looked
            /\ ~req[r].hit
            /\ req[r].put = "none"
            /\ req[r].pc \in {"lookup", "fetch", "done"}
            /\ req[r].pc = "done" =>
                  /\ req[r].resp = (IF req[r].fetched = "neterr" THEN Rejected
                                    ELSE PassThrough(req[r].fetched = "ok"))

\* a request answered through a candidate that is not read-capable with the
\* upstream's successful response, while TileStore is enabled
C14_Witness ==
    \E r \in Slots :
        /\ Ranged(r)
        /\ req[r].pc = "done"
        /\ ~req[r].allowRead
        /\ tileDB
        /\ req[r].fetched = "ok"
        /\ req[r].resp.kind = "upstream"

\* the size probes of the candidate give a usable total
Usable(behaviour) == behaviour[1] = "length" \/ behaviour[2] = "total"

UsableCandidates(answers) == {i \in 1..Len(driveCandidates) : Usable(answers[i])}

\* C17: the candidate a ranged request uses is the first one, in
\* driveCandidates order, whose probes give a usable total size, with that
\* candidate's read flag and that size; when no candidate gives one it is
\* the first candidate, with its read flag and the size unknown.
C17_FirstUsableCandidate ==
    \A r \in Slots :
        Ranged(r) =>
            LET U == UsableCandidates(req[r].answers)
            IN  IF U # {}
                THEN /\ req[r].upstream \in U
                     /\ \A i \in U : req[r].upstream <= i
                     /\ req[r].allowRead = driveCandidates[req[r].upstream].cors
                     /\ req[r].totalSize = ObjSize
                ELSE /\ req[r].upstream = 1
                     /\ req[r].allowRead = driveCandidates[1].cors
                     /\ req[r].totalSize = 0

\* a finished request that went to the third candidate after the first two
\* gave no size, and one that found no size at all
C17_Witness ==
    \E r, o \in Slots :
        /\ Ranged(r) /\ req[r].pc = "done"
        /\ req[r].upstream = 3
        /\ ~Usable(req[r].answers[1]) /\ ~Usable(req[r].answers[2])
        /\ Ranged(o) /\ req[o].pc = "done"
        /\ UsableCandidates(req[o].answers) = {}
        /\ req[o].totalSize = 0

\* C18 (as stated): a request answered from TileStore has issued no network
\* request: no size probe and no tile fetch
C18_HitNoNetwork ==
    \A r \in Slots :
        (req[r].pc = "done" /\ req[r].hit) =>
            (req[r].probes = 0 /\ req[r].fetched = "none")

\* two finished requests for the same tile that both missed TileStore, both
\* fetched the tile and both attempted to persist it
Raced(r, o) ==
    /\ r # o
    /\ Ranged(r) /\ Ranged(o)
    /\ req[r].pc = "done" /\ req[o].pc = "done"
    /\ req[r].tileIndex = req[o].tileIndex
    /\ req[r].looked /\ req[o].looked
    /\ ~req[r].hit /\ ~req[o].hit
    /\ req[r].put \in {"stored", "conflict", "failed"}
    /\ req[o].put \in {"stored", "conflict", "failed"}

TilesUnder(id) == {d \in store : d.id = id}

\* C19: when two requests for the same tile both miss TileStore, both fetch
\* and both put, each is answered with a 206 built from its fetched tile
\* (for a valid range the body is exactly the bytes start..end of the object,
\* cut at its last byte, and Content-Length is its size), neither sees the
\* put's error, and TileStore holds at most one document under the tile's
\* id: exactly one, with the fetched tile as payload, as soon as one of the
\* puts was stored or refused as a conflict.
C19_HarmlessRace ==
    \A r, o \in Slots :
        Raced(r, o) =>
            LET q  == req[r]
                id == DocId(FileId, q.tileIndex)
            IN  /\ q.resp.kind = "built"
                /\ q.resp.status = 206
                /\ q.resp.from = "fresh"
                /\ q.resp.contentLength = BlobSize(q.resp.body)
                /\ q.got = UpstreamBytes(q.tileStart, q.tileStart + TILE_SIZE - 1, ObjSize)
                /\ ValidRange(r) =>
                      /\ q.resp.contentRange.first = q.start
                      /\ q.resp.body = MkBlob(q.start, Min(q.end, ObjSize - 1) + 1)
                /\ Cardinality(TilesUnder(id)) <= 1
                /\ (q.put \in {"stored", "conflict"} \/ req[o].put \in {"stored", "conflict"}) =>
                      /\ Cardinality(TilesUnder(id)) = 1
                      /\ \A d \in TilesUnder(id) : d.blob = q.got /\ d.blob = req[o].got
                /\ (q.put = "conflict") => req[o].put = "stored"

\* the race on the last tile of the object: one request stored it, the other
\* was refused, the two having seen different total sizes
C19_Witness ==
    \E r, o \in Slots :
        /\ Raced(r, o)
        /\ req[r].put = "stored"
        /\ req[o].put = "conflict"
        /\ req[r].tileEnd # req[o].tileEnd
        /\ ValidRange(r) /\ ValidRange(o)
        /\ req[r].resp.body # EmptyBlob
        /\ req[o].resp.body # EmptyBlob

\* C20: a document of TileStore, once stored, stays as it is: no step
\* changes or removes it, and no second document appears under its id.
C20_TileImmutable ==
    /\ [][\A d \in store : d \in store']_store
    /\ [](\A d, e \in store : d.id = e.id => d = e)

\* a put of a different document (other recorded bounds) under the id of a
\* stored tile was attempted and refused
C20_Witness ==
    \E r \in Slots :
        /\ req[r].pc = "done"
        /\ req[r].put = "conflict"
        /\ \E d \in store :
              /\ d.id = DocId(FileId, req[r].tileIndex)
              /\ d.tileEnd # req[r].tileEnd


(***************************************************************************)
(* Properties of SpecAsset.                                                *)
(***************************************************************************)
Matched(s) == asset # <<>> /\ asset[s].pc \in {"fetch", "done"}

\* C11: when the current store holds an entry under the normalized key, the
\* handler's result is that entry from the moment it was looked up, while
\* the network fetch is pending, after it resolved and after it rejected.
C11_WarmServedFromCache ==
    \A s \in 1..AssetSlots :
        (Matched(s) /\ asset[s].cached # Undefined) =>
            /\ asset[s].result = asset[s].cached
            /\ asset[s].result.origin \in {"install", "network"}

\* a request with a version parameter answered, the network unreachable,
\* with the entry an earlier request stored under the normalized key
C11_Witness ==
    \E s \in 1..AssetSlots :
        /\ Matched(s)
        /\ asset[s].pc = "done"
        /\ asset[s].request.url.query # <<>>
        /\ asset[s].cached.origin = "network"
        /\ asset[s].net = "rejected"
        /\ asset[s].result = asset[s].cached

\* C12 (as stated): with no entry under the normalized key the handler's
\* result is the network's: its response when the fetch resolves, and a
\* rejection when the fetch rejects.
C12_ColdFailurePropagates ==
    \A s \in 1..AssetSlots :
        (Matched(s) /\ asset[s].pc = "done" /\ asset[s].cached = Undefined) =>
            /\ asset[s].net = "resolved" => asset[s].result = asset[s].copy
            /\ asset[s].net = "rejected" => asset[s].result.origin = "rejected"


(***************************************************************************)
(* Properties of SpecDispatch.                                             *)
(***************************************************************************)
Routed == disp.pc = "routed"

\* rule (1) of the claim
LeftAlone ==
    \/ disp.request.method # "GET"
    \/ disp.request.url.origin # disp.self
    \/ ~(\/ disp.request.url.protocol = "https:"
         \/ (disp.self.scheme = "http" /\ disp.self.host \in {"localhost", "localhost:8080"}))
    \/ disp.request.url.protocol = "blob:"

DrivePdfRequest ==
    /\ Len(disp.request.url.path) >= 3
    /\ disp.request.url.path[1] = "app"
    /\ disp.request.url.path[2] = "drivepdf"

NavigationType ==
    \/ disp.request.mode = "navigate"
    \/ disp.request.destination = "document"
    \/ disp.request.accept = "text/html"

\* C13: every event gets exactly one of the five outcomes, the first rule
\* that applies deciding: unhandled (not GET, other origin, neither https
\* nor localhost, blob:), else the tiling pipeline (<scope>/drivepdf/),
\* else pass-through (Range header), else the navigation strategy
\* (document or navigation type), else the asset strategy.
C13_FixedPrecedence ==
    Routed =>
        /\ disp.route \in {"unhandled", "drivepdf", "passthrough", "navigation", "asset"}
        /\ (disp.route = "unhandled") <=> LeftAlone
        /\ (disp.route = "drivepdf") <=> (~LeftAlone /\ DrivePdfRequest)
        /\ (disp.route = "passthrough")
              <=> (~LeftAlone /\ ~DrivePdfRequest /\ disp.request.range)
        /\ (disp.route = "navigation")
              <=> (~LeftAlone /\ ~DrivePdfRequest /\ ~disp.request.range /\ NavigationType)
        /\ (disp.route = "asset")
              <=> (~LeftAlone /\ ~DrivePdfRequest /\ ~disp.request.range /\ ~NavigationType)

\* a navigation carrying a Range header is passed through
C13_Witness ==
    /\ Routed
    /\ disp.request.mode = "navigate"
    /\ disp.request.range
    /\ disp.request.url.path = <<"app", "notes.html">>
    /\ disp.route = "passthrough"


(***************************************************************************)
(* Properties of SpecInstall.                                              *)
(***************************************************************************)
Installed == inst.pc = "done"

\* C15: whenever the install chain ends, skipWaiting has been called and the
\* promise given to waitUntil has resolved, whether caches.open and
\* cache.addAll succeeded or failed; and before that nothing has rejected it.
C15_InstallAlwaysReady ==
    /\ Installed => (inst.skipWaiting /\ inst.settled = "resolved")
    /\ inst.pc \in {"open", "addAll", "catch", "skip"} => inst.settled = "pending"

\* an install that ended ready although the population failed
C15_Witness ==
    /\ Installed
    /\ inst.chain = "resolved"
    /\ \E i \in AssetIndexes : inst.outcomes[i] \in {"notok", "neterr"}
    /\ inst.skipWaiting
    /\ inst.settled = "resolved"

\* C16 (as stated): after install, every asset of CORE_ASSETS whose fetch
\* succeeded is in the current store, also when another asset's fetch failed
C16_PartialPopulation ==
    Installed =>
        \A i \in AssetIndexes :
            inst.outcomes[i] = "ok" =>
                CacheMatch(caches, CACHE_NAME, CORE_ASSETS[i]) = Precached(CORE_ASSETS[i])


(***************************************************************************)
(* Properties of SpecTile: persistence, parsing, announced ranges.         *)
(***************************************************************************)
\* a finished request that fetched its tile from a read-capable candidate
FetchedFresh(r) ==
    /\ Ranged(r)
    /\ req[r].pc = "done"
    /\ ~req[r].hit
    /\ req[r].allowRead
    /\ req[r].fetched = "ok"

\* the 206 response the freshly fetched bytes give
FreshResponse(r) ==
    Respond206(BlobSlice(UpstreamBytes(req[r].tileStart, req[r].tileEnd, ObjSize),
                         req[r].start - req[r].tileStart,
                         req[r].start - req[r].tileStart + (req[r].end - req[r].start + 1)),
               req[r].start, req[r].end, req[r].totalSize, "fresh")

\* C21: a request that fetched its tile is answered with the 206 response
\* built from the fetched bytes whether the put was stored, refused, failed
\* or not attempted because TileStore is unavailable; two such requests with
\* the same header and total size get the same response whatever their puts did.
C21_PersistBestEffort ==
    \A r \in Slots :
        FetchedFresh(r) =>
            /\ req[r].put \in {"stored", "conflict", "failed", "skipped"}
            /\ (req[r].put = "skipped") <=> ~tileDB
            /\ req[r].resp = FreshResponse(r)
            /\ req[r].resp.status = 206
            /\ \A o \in Slots :
                  (FetchedFresh(o) /\ req[o].hdr = req[r].hdr
                                   /\ req[o].totalSize = req[r].totalSize)
                     => req[o].resp = req[r].resp

\* the same request served twice, the write failing once and stored once
C21_Witness ==
    \E r, o \in Slots :
        /\ FetchedFresh(r) /\ FetchedFresh(o)
        /\ req[r].put = "failed"
        /\ req[o].put = "stored"
        /\ req[r].hdr = req[o].hdr
        /\ req[r].totalSize = req[o].totalSize
        /\ req[r].resp.body # EmptyBlob

\* a step that adds to or changes TileStore is the put of a request that
\* fetched its tile with a success status from a read-capable candidate
StoreWrittenAfterFetch ==
    store' # store =>
        \E r \in Slots :
            /\ req[r].pc = "put"
            /\ req[r].allowRead
            /\ req[r].fetched = "ok"
            /\ req'[r].put = "stored"
            /\ store' = store \cup {d \in store' : d.id = DocId(FileId, req[r].tileIndex)}

\* C22: TileStore changes only by the put of a request that fetched its tile
\* with a success status from a read-capable candidate; a request whose tile
\* fetch was answered with a non-success status ends with that response as
\* it is and never puts.
C22_WriteOnlyAfterSuccess ==
    /\ [][StoreWrittenAfterFetch]_<<store, req>>
    /\ [](\A r \in Slots :
            /\ req[r].put = "stored" => (req[r].allowRead /\ req[r].fetched = "ok" /\ tileDB)
            /\ (req[r].pc = "done" /\ req[r].fetched = "notok" /\ Ranged(r)) =>
                  (req[r].resp = PassThrough(FALSE) /\ req[r].put = "none"))

\* a read-capable request answered with the upstream's non-success response
\* while TileStore, enabled, holds nothing
C22_Witness ==
    \E r \in Slots :
        /\ Ranged(r)
        /\ req[r].pc = "done"
        /\ req[r].allowRead
        /\ tileDB
        /\ req[r].looked
        /\ req[r].fetched = "notok"
        /\ req[r].resp = PassThrough(FALSE)
        /\ store = {}

\* C23: a Range header the pattern does not match gives start 0 and
\* requested end TILE_SIZE - 1, so the request is served from tile 0 like
\* `bytes=0-4194303`: a 206 starting at byte 0 and ending with the tile
\* (or the object, if shorter and of known size) once the tile is available,
\* and otherwise only what a failed tile fetch or a candidate that is not
\* read-capable gives.
C23_MalformedDefaultsToFirstTile ==
    \A r \in Slots :
        (Ranged(r) /\ ~RangeExec(req[r].hdr).matched) =>
            /\ req[r].start = 0
            /\ req[r].requestedEnd = TILE_SIZE - 1
            /\ req[r].tileIndex = 0
            /\ req[r].tileStart = 0
            /\ req[r].end = (IF req[r].totalSize # 0
                             THEN Min(TILE_SIZE - 1, req[r].totalSize - 1)
                             ELSE TILE_SIZE - 1)
            /\ req[r].pc = "done" =>
                  IF TileObtained(r)
                  THEN /\ req[r].resp.kind = "built"
                       /\ req[r].resp.status = 206
                       /\ req[r].resp.contentRange.first = 0
                       /\ req[r].resp.contentRange.last = req[r].end
                       /\ req[r].resp.body = MkBlob(0, Min(TILE_SIZE, ObjSize))
                  ELSE \/ ~req[r].allowRead
                       \/ req[r].fetched \in {"notok", "neterr"}

\* `bytes=-500` answered with the first tile
C23_Witness ==
    \E r \in Slots :
        /\ Built(r)
        /\ req[r].hdr = <<TokBytes, TokDash, Num(500)>>
        /\ req[r].resp.status = 206
        /\ req[r].resp.contentRange.first = 0
        /\ req[r].resp.contentRange.last = TILE_SIZE - 1
        /\ req[r].resp.body = MkBlob(0, TILE_SIZE)

\* C26 (as stated): every 206 response built for a header the pattern
\* matches announces start <= end and, the total size being known,
\* end <= totalSize - 1 and start <= totalSize - 1
C26_AnnouncedRangeInBounds ==
    \A r \in Slots :
        (Built(r) /\ RangeExec(req[r].hdr).matched) =>
            LET cr == req[r].resp.contentRange
            IN  /\ cr.first <= cr.last
                /\ ~cr.star => (cr.last <= cr.total - 1 /\ cr.first <= cr.total - 1)


(***************************************************************************)
(* Properties of SpecAssetFair.                                            *)
(***************************************************************************)
\* the network fetch of a request and what follows from it
Revalidates(s) ==
    /\ (asset[s].pc = "fetch") <=> (asset[s].net = "none")
    /\ (asset[s].pc = "fetch" /\ asset[s].cached # Undefined)
          => asset[s].result = asset[s].cached
    /\ asset[s].net = "resolved" =>
          /\ asset[s].put \in {"pending", "stored", "failed"}
          /\ asset[s].copy.origin = "network"
          /\ asset[s].copy.path = asset[s].request.url.path
    /\ asset[s].net = "rejected" => (asset[s].put = "none" /\ asset[s].copy = Undefined)

\* the entries of the current store change only by the put of a request
\* whose fetch resolved, which leaves the fetched response under its key
EntryRefreshed ==
    (asset # <<>> /\ caches' # caches) =>
        \E s \in 1..AssetSlots :
            /\ asset[s].put = "pending"
            /\ asset'[s].put = "stored"
            /\ asset[s].net = "resolved"
            /\ CacheMatch(caches', CACHE_NAME, AssetKeyUrl(s)) = asset[s].copy
            /\ \A i \in 1..Len(CORE_ASSETS) :
                  CORE_ASSETS[i] # AssetKeyUrl(s) =>
                      CacheMatch(caches', CACHE_NAME, CORE_ASSETS[i])
                         = CacheMatch(caches, CACHE_NAME, CORE_ASSETS[i])

\* a put that is stored leaves the fetched response under the normalized key
PutRefreshes ==
    asset # <<>> =>
        \A s \in 1..AssetSlots :
            (asset[s].put = "pending" /\ asset'[s].put = "stored")
               => CacheMatch(caches', CACHE_NAME, AssetKeyUrl(s)) = asset[s].copy

\* C24: every asset request has a network fetch in flight from the moment
\* the cache was looked up, a cached entry being served meanwhile; when the
\* fetch resolves its response is handed to a put that settles, and a put
\* that is stored leaves the fetched response under the normalized key,
\* where it stays until another request's put; when the fetch rejects the
\* request puts nothing and the entries stay as they are.
C24_StaleWhileRevalidate ==
    /\ [](\A s \in 1..AssetSlots : Matched(s) => Revalidates(s))
    /\ [][EntryRefreshed /\ PutRefreshes]_<<asset, caches>>
    /\ \A s \in 1..AssetSlots :
          (asset # <<>> /\ asset[s].put = "pending")
             ~> (asset # <<>> /\ asset[s].put \in {"stored", "failed"})

\* a request served with the precached entry whose background fetch has
\* since replaced that entry with the fetched response
C24_Witness ==
    \E s \in 1..AssetSlots :
        /\ Matched(s)
        /\ asset[s].cached.origin = "install"
        /\ asset[s].result = asset[s].cached
        /\ asset[s].put = "stored"
        /\ CacheMatch(caches, CACHE_NAME, AssetKeyUrl(s)) = asset[s].copy
        /\ asset[s].copy # asset[s].cached


(***************************************************************************)
(* Properties of SpecCancel.                                               *)
(***************************************************************************)
\* C25 (as stated): once the client has aborted the request no fetch made
\* for it is in flight: the one in flight was abandoned and none is issued
\* afterwards
C25_AbortAbandonsFetches ==
    (cancel.pc # "idle" /\ cancel.aborted) =>
        /\ cancel.inflight = NoCall
        /\ cancel.abortedAt \in cancel.abandoned

====
